---- MODULE Spec2Model ----
(***************************************************************************)
(* Model of the batch orchestration engine of YTVideo:                     *)
(* services/batch_manager.py (BatchManager) with the part of               *)
(* services/proxy_manager.py (ProxyManager) that its workers call.         *)
(*                                                                         *)
(* Threads of the program and their counterpart here:                      *)
(*   - the callers of the facade: add_url, add_urls, add_from_file,        *)
(*     get_download, get_all_downloads, cancel_download, clear_completed,  *)
(*     stop.  cancel_download, clear_completed, stop and add_urls are      *)
(*     split at the points where another thread can run between two of     *)
(*     their statements (cancelPc, clearPc, stopPc, batchPc); add_url is   *)
(*     one step where its callers are one thread, and split at the         *)
(*     statements of _ensure_queue_thread where two callers run it at the  *)
(*     same time (addPc);                                                  *)
(*   - the queue threads running _process_queue (schedPc, one entry for    *)
(*     each Thread object _ensure_queue_thread has created);               *)
(*   - the pool workers running _download, one future per dispatched job,  *)
(*     with the Downloader each one calls (yt-dlp or aria2) and the        *)
(*     progress thread of an aria2 call, which outlives the call;          *)
(*   - threads that call ProxyManager.mark_proxy_failure and get_proxy at  *)
(*     the same time, as the workers do (pmPc), split at the reads and     *)
(*     writes of failed_proxies.                                           *)
(* A `with self.locks[id]:` block is one action, enabled when the lock is  *)
(* free; clear_completed reads the status and deletes the job in two steps *)
(* under the lock, so the lock it holds is explicit (clearHeld).           *)
(*                                                                         *)
(* A job record carries the fields the engine writes after creation, and   *)
(* id, url, use_aria2 and proxy; speed, eta, added_at, format and          *)
(* subtitles are set by add_url and never written again.  Timestamps are   *)
(* "None" or "set", the output file is "file", a Downloader's error text   *)
(* is "x".  The BatchManager has a ProxyManager; one without proxies       *)
(* stands for the manager that hands out no proxy.                         *)
(*                                                                         *)
(* Specifications: Spec is the whole engine; SpecRegistry leaves out       *)
(* stop() and the progress reports; SpecLive adds the fairness of the      *)
(* threads to a run without stop() and clear_completed; SpecProxy submits  *)
(* jobs with and without a proxy of their own; SpecQuery and               *)
(* SpecRoundTrip add the callers' reads of the registry; SpecThreads has   *)
(* two callers inside add_url at once; SpecStop keeps what was             *)
(* outstanding when stop() began; SpecClearAlone runs clear_completed      *)
(* with no other thread between its statements; SpecBatch and SpecFile     *)
(* are the callers of add_urls and add_from_file; SpecRestart is stop()    *)
(* followed by add_url; SpecBackend submits jobs for both backends and     *)
(* cancels them; SpecLate adds the reports of the aria2 progress thread;   *)
(* SpecResume adds fairness to a run with one stop(); SpecMark and SpecGet *)
(* are the concurrent callers of the ProxyManager.                         *)
(***************************************************************************)
EXTENDS Integers, Sequences, FiniteSets, TLC

\* ---------------------------------------------------------------- bounds
\* number of add_url calls of a run
MaxJobs == 2
\* the max_concurrent the BatchManager is constructed with
max_concurrent == 1

\* the ids uuid4 can return: one more than MaxJobs, for the run with two
\* concurrent callers of add_url, which submits MaxJobs + 1 jobs
IDs == 1..(MaxJobs + 1)
\* the threads that call add_url at the same time
Callers == {"c1", "c2"}
\* the Thread objects _ensure_queue_thread can have created and not yet
\* dropped
Threads == {1, 2}
None == "None"
URLs == {"u1", "u2"}
\* the `urls` arguments of add_urls: the lists of at most MaxJobs URLs
UrlLists == UNION {[1..n -> URLs] : n \in 0..MaxJobs}
\* the lines a URL file is made of, as their characters (the newline that
\* ends a line is whitespace, written " "): blank, a URL between blanks, a
\* comment, an indented comment, a URL that holds a '#', and a second URL
FileLines == {<<" ">>, <<" ", "a", " ">>, <<"#", "a">>, <<" ", "#">>,
              <<"a", "#">>, <<"b">>}
\* no path was given: the batch came from add_urls
NoPath == [kind |-> "none", lines |-> <<>>]
\* a path at which os.path.exists is False
AbsentPath == [kind |-> "absent", lines |-> <<>>]
\* the `file_path` arguments of add_from_file: the absent path and the
\* paths of the files of at most MaxJobs + 1 lines
Paths == {AbsentPath}
         \cup {[kind |-> "file", lines |-> l] :
                 l \in UNION {[1..n -> FileLines] : n \in 0..(MaxJobs + 1)}}
ExplicitProxies == {None, "px"}
\* the proxy_url arguments of mark_proxy_failure: the proxies a ProxyManager
\* can be given, and one it was not given
MarkArgs == {"pm1", "pm2", "px"}
Terminal == {"completed", "failed", "cancelled"}
MaxFailures == 5

VARIABLES
    downloads,       \* self.downloads: id -> job record
    locks,           \* keys of self.locks
    download_queue,  \* self.download_queue, FIFO of ids
    stop_flag,       \* self.stop_flag
    issued,          \* ids returned by add_url so far, in order of insertion
    queue_thread,    \* self.queue_thread: a thread, or 0 for None
    schedPc,         \* thread -> its position in _process_queue
    cur,             \* thread -> its local download_id between dequeue and submit
    futures,         \* thread -> its local futures dict (the ids it maps to)
    future,          \* id -> state of the future executor.submit returned
    wproxy,          \* id -> local `proxy` of the worker's _download call
    marked,          \* id -> number of mark_proxy_failure calls of its worker
    wurl,            \* id -> local `url` of the worker's _download call
    aria2,           \* self.aria2 is not None
    transfer,        \* id -> the Downloader call of its worker: "none" before
                     \* it, "ytdlp", "invalid" (no backend takes the URL), or
                     \* where the progress thread of its aria2 call stands:
                     \* "aria2" (in its loop), "final", "done"
    processes,       \* Aria2Downloader._processes: key (the URL) -> the job
                     \* whose process is stored under it, 0 for no entry
    terminated,      \* the jobs whose aria2 process was terminated
    proxies,         \* ProxyManager.proxies
    failed_proxies,  \* ProxyManager.failed_proxies
    cancelPc,        \* position of the caller inside cancel_download
    cancelId,        \* its argument
    clearPc,         \* position of the caller inside clear_completed
    clearKeys,       \* rest of list(self.downloads.keys())
    clearHeld,       \* the id whose lock clear_completed holds
    clearSt,         \* the status it read under that lock
    cleared,         \* its local counter `cleared`
    clearBase,       \* self.downloads as it was when the call began (kept
                     \* in the runs that compare the call's result with it)
    stopPc,          \* position of the caller inside stop
    stopIdx,         \* position of its iteration over self.downloads.items()
    stopLen,         \* size of self.downloads when the iteration began
    stopSnap,        \* the jobs that were queued or downloading when it
                     \* began, with the status each had
                     \* (kept in the runs that compare the call's effect with it)
    addPc,           \* caller -> its position inside add_url
    addId,           \* caller -> the id its call created
    returned,        \* the ids add_url has returned
    before,          \* id -> the ids add_url had returned when its call began
    justAdded,       \* the id add_url returned to a caller that has made no
                     \* other call since (0: none)
    view,            \* the job records (by id) the last get_download or
                     \* get_all_downloads result holds
    viewSeen,        \* those records as they were when the call returned
    viewKind,        \* the call: "new" for get_download of the id add_url has
                     \* just returned, "one" for any other get_download, "all"
    batchPc,         \* position of the caller inside add_urls
    batchArg,        \* its `urls` argument
    batchUrls,       \* the URLs its loop has not reached yet
    batchIds,        \* its local `download_ids`
    batchProxy,      \* its `proxy` argument
    batchSrc,        \* the path add_from_file was last called with, until
                     \* the loop of its add_urls begins; NoPath otherwise
                     \* (None: no file, or the loop has begun)
    batchErr,        \* the error the last add_from_file call raised, or None
    pmPc,            \* caller -> its position inside mark_proxy_failure or
                     \* get_proxy
    pmMark,          \* caller -> <<proxy_url, the count .get() returned>>
                     \* inside mark_proxy_failure, <<>> outside
    pmItems,         \* caller -> the rest of list(self.failed_proxies.items())
                     \* inside _reset_failed_proxies
    pmRet,           \* caller -> what its last get_proxy call returned, or
                     \* "KeyError" where it raised
    pmCalls,         \* proxy_url -> the mark_proxy_failure calls that have
                     \* returned
    phase            \* "run" until stop() is called, "stopped" from then
                     \* until the next add_url call, "resumed" after it (kept
                     \* in the run that looks at what follows a stop)

vars == <<downloads, locks, download_queue, stop_flag, issued, queue_thread,
          schedPc, cur, futures, future, wproxy, marked, wurl, aria2, transfer,
          processes, terminated, proxies, failed_proxies,
          cancelPc, cancelId, clearPc, clearKeys, clearHeld,
          clearSt, cleared, clearBase, stopPc, stopIdx, stopLen, stopSnap,
          addPc, addId, returned, before, justAdded, view, viewSeen, viewKind,
          batchPc, batchArg, batchUrls, batchIds, batchProxy, batchSrc,
          batchErr, pmPc, pmMark, pmItems, pmRet, pmCalls, phase>>

registryVars == <<downloads, locks>>
schedVars == <<queue_thread, schedPc, cur, futures>>
\* the Downloader objects and what a worker keeps of its call to one
backendVars == <<wurl, aria2, transfer, processes, terminated>>
workerVars == <<future, wproxy, marked, backendVars>>
proxyVars == <<proxies, failed_proxies>>
cancelVars == <<cancelPc, cancelId>>
clearVars == <<clearPc, clearKeys, clearHeld, clearSt, cleared, clearBase>>
stopVars == <<stopPc, stopIdx, stopLen, stopSnap>>
addVars == <<addPc, addId>>
histVars == <<returned, before, justAdded>>
queryVars == <<view, viewSeen, viewKind>>
batchVars == <<batchPc, batchArg, batchUrls, batchIds, batchProxy, batchSrc,
               batchErr>>
pmVars == <<pmPc, pmMark, pmItems, pmRet, pmCalls>>
\* what the queue threads, the workers, cancel_download, clear_completed and
\* stop leave alone
facadeVars == <<addVars, histVars, queryVars, batchVars, pmVars>>
callVars == <<facadeVars, phase>>

Range(s) == {s[i] : i \in 1..Len(s)}

\* ------------------------------------------------------------ ProxyManager
\* failed_proxies maps every configured proxy to its failure count; a count of
\* 0 stands for "no entry in the dict" (an entry is created with count 1 and
\* only ever incremented or deleted).
AllProxies == {"pm1", "pm2"}

\* get_proxy: working_proxies
Working(fp) == {p \in Range(proxies) : fp[p] = 0}

\* _reset_failed_proxies: forget the proxies with fewer than MaxFailures failures
ResetFailed(fp) == [p \in DOMAIN fp |-> IF fp[p] < MaxFailures THEN 0 ELSE fp[p]]

\* failed_proxies after a get_proxy call
GetProxyState(fp) == IF Working(fp) = {} THEN ResetFailed(fp) ELSE fp

\* the values random.choice may make get_proxy return
GetProxyChoices(fp) ==
    LET w == Working(GetProxyState(fp))
    IN  IF w = {} THEN {None} ELSE w

\* mark_proxy_failure, called while no other thread is inside the
\* ProxyManager
MarkFailure(fp, p) ==
    IF p \in Range(proxies) THEN [fp EXCEPT ![p] = @ + 1] ELSE fp

\* what a call of a ProxyManager method by one of several threads leaves
\* alone
engineVars == <<registryVars, download_queue, stop_flag, issued, schedVars,
                workerVars, proxies, cancelVars, clearVars, stopVars, addVars,
                histVars, queryVars, batchVars, phase>>

\* the callers that are between the two halves of line 83 for proxy p
Storing(p) == {c \in Callers : pmPc[c] = "store" /\ pmMark[c][1] = p}

\* mark_proxy_failure(p) called by one of several threads: the test of line
\* 82 and, for a configured proxy, self.failed_proxies.get(p, 0); at most
\* MaxFailures calls are made for a proxy
MarkBegin(c, p) ==
    /\ pmPc[c] = "idle"
    /\ pmCalls[p] + Cardinality(Storing(p)) < MaxFailures
    /\ IF p \in Range(proxies)
       THEN /\ pmMark' = [pmMark EXCEPT ![c] = <<p, failed_proxies[p]>>]
            /\ pmPc' = [pmPc EXCEPT ![c] = "store"]
            /\ UNCHANGED pmCalls
       ELSE /\ pmCalls' = [pmCalls EXCEPT ![p] = @ + 1]
            /\ UNCHANGED <<pmMark, pmPc>>
    /\ UNCHANGED <<failed_proxies, pmItems, pmRet, engineVars>>

\* mark_proxy_failure: self.failed_proxies[p] = <the count read> + 1
MarkStore(c) ==
    /\ pmPc[c] = "store"
    /\ failed_proxies' = [failed_proxies EXCEPT
                             ![pmMark[c][1]] = pmMark[c][2] + 1]
    /\ pmCalls' = [pmCalls EXCEPT ![pmMark[c][1]] = @ + 1]
    /\ pmMark' = [pmMark EXCEPT ![c] = <<>>]
    /\ pmPc' = [pmPc EXCEPT ![c] = "idle"]
    /\ UNCHANGED <<pmItems, pmRet, engineVars>>

\* the lists list(fp.items()) can be: the entries of the dict in any order
ItemLists(fp) ==
    LET entries == {<<p, fp[p]>> : p \in {q \in DOMAIN fp : fp[q] > 0}}
    IN  {l \in [1..Cardinality(entries) -> entries] :
            \A i, j \in DOMAIN l : i # j => l[i] # l[j]}

\* get_proxy called by one of several threads: working_proxies (line 62)
\* and, where it is not empty, the choice among them; otherwise the list
\* _reset_failed_proxies iterates
GetBegin(c) ==
    /\ pmPc[c] = "idle"
    /\ IF Working(failed_proxies) # {}
       THEN /\ \E p \in Working(failed_proxies) :
                  pmRet' = [pmRet EXCEPT ![c] = p]
            /\ pmPc' = [pmPc EXCEPT ![c] = "return"]
            /\ UNCHANGED pmItems
       ELSE /\ \E l \in ItemLists(failed_proxies) :
                  pmItems' = [pmItems EXCEPT ![c] = l]
            /\ pmPc' = [pmPc EXCEPT ![c] = "reset"]
            /\ UNCHANGED pmRet
    /\ UNCHANGED <<failed_proxies, pmMark, pmCalls, engineVars>>

\* _reset_failed_proxies: one iteration over the list; `del` raises
\* KeyError for a key that is no longer in the dict
GetReset(c) ==
    /\ pmPc[c] = "reset"
    /\ IF pmItems[c] = <<>>
       THEN /\ pmPc' = [pmPc EXCEPT ![c] = "filter"]
            /\ UNCHANGED <<failed_proxies, pmItems, pmRet>>
       ELSE LET proxy == Head(pmItems[c])[1]
                failures == Head(pmItems[c])[2]
            IN  IF failures < MaxFailures /\ failed_proxies[proxy] = 0
                THEN /\ pmRet' = [pmRet EXCEPT ![c] = "KeyError"]
                     /\ pmPc' = [pmPc EXCEPT ![c] = "idle"]
                     /\ pmItems' = [pmItems EXCEPT ![c] = <<>>]
                     /\ UNCHANGED failed_proxies
                ELSE /\ failed_proxies' =
                            IF failures < MaxFailures
                            THEN [failed_proxies EXCEPT ![proxy] = 0]
                            ELSE failed_proxies
                     /\ pmItems' = [pmItems EXCEPT ![c] = Tail(@)]
                     /\ UNCHANGED <<pmPc, pmRet>>
    /\ UNCHANGED <<pmMark, pmCalls, engineVars>>

\* get_proxy after the reset: working_proxies again (line 67), None where it
\* is empty, the choice among them otherwise
GetFilter(c) ==
    /\ pmPc[c] = "filter"
    /\ \E p \in (IF Working(failed_proxies) = {} THEN {None}
                 ELSE Working(failed_proxies)) :
          pmRet' = [pmRet EXCEPT ![c] = p]
    /\ pmPc' = [pmPc EXCEPT ![c] = "return"]
    /\ UNCHANGED <<failed_proxies, pmMark, pmItems, pmCalls, engineVars>>

\* get_proxy: the return statement
GetReturn(c) ==
    /\ pmPc[c] = "return"
    /\ pmPc' = [pmPc EXCEPT ![c] = "idle"]
    /\ UNCHANGED <<failed_proxies, pmMark, pmItems, pmRet, pmCalls, engineVars>>

\* ---------------------------------------------------------------- registry
\* mutant of uuid4: the smallest id that is not registered at the moment
uuid4Reused ==
    LET free == IDs \ DOMAIN downloads
    IN  CHOOSE i \in free : \A j \in free : i <= j

\* str(uuid4()): a value no earlier call returned
uuid4 ==
    LET fresh == IDs \ Range(issued)
    IN  CHOOSE i \in fresh : \A j \in fresh : i <= j

\* mutant of NewEntry: the record is created as already handed to a worker
NewEntryStarted(id, url, use_aria2, proxy) ==
    [id |-> id, url |-> url, status |-> "downloading", progress |-> 0,
     downloaded_bytes |-> 0, total_bytes |-> 0, started_at |-> None,
     completed_at |-> None, use_aria2 |-> use_aria2 /\ aria2,
     proxy |-> proxy, output_file |-> None, error |-> None]

\* download_entry of add_url
NewEntry(id, url, use_aria2, proxy) ==
    [id |-> id, url |-> url, status |-> "queued", progress |-> 0,
     downloaded_bytes |-> 0, total_bytes |-> 0, started_at |-> None,
     completed_at |-> None, use_aria2 |-> use_aria2 /\ aria2,
     proxy |-> proxy, output_file |-> None, error |-> None]

\* mutant of LockFree: the status updates do not wait for the job's lock
LockIgnored(id) == TRUE

\* a thread can enter `with self.locks[id]` (clear_completed is not inside it)
LockFree(id) == clearHeld # id

\* progress_callback: downloaded_bytes / total_bytes * 100, 0 without a total
Percent(d, t) == IF t > 0 THEN (d * 100) \div t ELSE 0

\* the (downloaded_bytes, total_bytes) reports a backend delivers: nothing
\* known yet, half of a known total, all of it
Reports == {<<0, 0>>, <<1, 2>>, <<2, 2>>}

InitEngine ==
    /\ downloads = <<>>
    /\ locks = {}
    /\ download_queue = <<>>
    /\ stop_flag = FALSE
    /\ issued = <<>>
    /\ queue_thread = 0
    /\ schedPc = [t \in Threads |-> "dead"]
    /\ cur = [t \in Threads |-> 0]
    /\ futures = [t \in Threads |-> {}]
    /\ future = [i \in IDs |-> "none"]
    /\ wproxy = [i \in IDs |-> None]
    /\ marked = [i \in IDs |-> 0]
    /\ wurl = [i \in IDs |-> None]
    /\ transfer = [i \in IDs |-> "none"]
    /\ processes = [u \in URLs |-> 0]
    /\ terminated = {}
    /\ failed_proxies = [p \in AllProxies |-> 0]
    /\ cancelPc = "idle"
    /\ cancelId = 0
    /\ clearPc = "idle"
    /\ clearKeys = <<>>
    /\ clearHeld = 0
    /\ clearSt = None
    /\ cleared = 0
    /\ clearBase = <<>>
    /\ stopPc = "idle"
    /\ stopIdx = 0
    /\ stopLen = 0
    /\ stopSnap = <<>>
    /\ addPc = [c \in Callers |-> "idle"]
    /\ addId = [c \in Callers |-> 0]
    /\ returned = {}
    /\ before = [i \in IDs |-> {}]
    /\ justAdded = 0
    /\ view = {}
    /\ viewSeen = <<>>
    /\ viewKind = "none"
    /\ batchPc = "idle"
    /\ batchArg = <<>>
    /\ batchUrls = <<>>
    /\ batchIds = <<>>
    /\ batchProxy = None
    /\ batchSrc = NoPath
    /\ batchErr = None
    /\ pmPc = [c \in Callers |-> "idle"]
    /\ pmMark = [c \in Callers |-> <<>>]
    /\ pmItems = [c \in Callers |-> <<>>]
    /\ pmRet = [c \in Callers |-> None]
    /\ pmCalls = [p \in MarkArgs |-> 0]
    /\ phase = "run"

\* a BatchManager whose ProxyManager was given one proxy, where aria2 is
\* installed
Init ==
    /\ InitEngine
    /\ proxies = <<"pm1">>
    /\ aria2 = TRUE

\* a BatchManager whose ProxyManager was given no proxy, or one
InitProxy ==
    /\ InitEngine
    /\ proxies \in {<<>>, <<"pm1">>}
    /\ aria2 = TRUE

\* ------------------------------------------------------------------ facade
\* Thread.is_alive(): started and not ended
Alive(t) == schedPc[t] \notin {"new", "dead"}

\* the Thread objects nothing refers to any more: the ones that ended and
\* the ones that were replaced in self.queue_thread before they were started
FreeThreads ==
    {t \in Threads : schedPc[t] = "dead" \/ (schedPc[t] = "new" /\ t # queue_thread)}

\* threading.Thread(target=self._process_queue)
NewThread == CHOOSE t \in FreeThreads : \A u \in FreeThreads : t <= u

\* _ensure_queue_thread, as the last statement of an add_url call that no
\* other add_url call overlaps
EnsureQueueThread ==
    IF queue_thread = 0 \/ ~Alive(queue_thread)
    THEN /\ stop_flag' = FALSE
         /\ queue_thread' = NewThread
         /\ schedPc' = [schedPc EXCEPT ![NewThread] = "loop"]
         /\ futures' = [futures EXCEPT ![NewThread] = {}]
         /\ cur' = [cur EXCEPT ![NewThread] = 0]
    ELSE UNCHANGED <<stop_flag, queue_thread, schedPc, futures, cur>>

\* mutant of Register: the id is put on the queue twice
RegisterTwice(id, url, use_aria2, proxy) ==
    /\ issued' = Append(issued, id)
    /\ locks' = locks \cup {id}
    /\ downloads' = [i \in DOMAIN downloads \cup {id} |->
                        IF i = id THEN NewEntry(id, url, use_aria2, proxy)
                        ELSE downloads[i]]
    /\ download_queue' = Append(Append(download_queue, id), id)
    /\ before' = [before EXCEPT ![id] = returned]

\* add_url up to self.download_queue.put(download_id)
Register(id, url, use_aria2, proxy) ==
    /\ issued' = Append(issued, id)
    /\ locks' = locks \cup {id}
    /\ downloads' = [i \in DOMAIN downloads \cup {id} |->
                        IF i = id THEN NewEntry(id, url, use_aria2, proxy)
                        ELSE downloads[i]]
    /\ download_queue' = Append(download_queue, id)
    /\ before' = [before EXCEPT ![id] = returned]

\* add_url(url, use_aria2=use_aria2, proxy=proxy), called while no other
\* add_url call is running
AddEntry(url, use_aria2, proxy) ==
    /\ Len(issued) < MaxJobs
    /\ Register(uuid4, url, use_aria2, proxy)
    /\ EnsureQueueThread
    /\ returned' = returned \cup {uuid4}
    /\ justAdded' = uuid4
    /\ UNCHANGED <<workerVars, proxyVars, cancelVars, clearVars, stopVars, pmVars,
                   addVars, queryVars>>

\* add_url(url, proxy=proxy): use_aria2 is False when it is not given
add_url(url, proxy) == AddEntry(url, FALSE, proxy)

\* a caller's add_url(url, proxy=proxy)
AddUrl(url, proxy) ==
    /\ add_url(url, proxy)
    /\ UNCHANGED <<batchVars, phase>>

\* a caller's add_url(url, use_aria2=use_aria2)
AddUrlBackend(url, use_aria2) ==
    /\ AddEntry(url, use_aria2, None)
    /\ UNCHANGED <<batchVars, phase>>

\* a caller's add_url(url) in the run that looks at what follows a stop
AddResume(url) ==
    /\ AddEntry(url, FALSE, None)
    /\ phase' = IF phase = "run" THEN "run" ELSE "resumed"
    /\ UNCHANGED batchVars

\* add_url called by one of several threads, up to download_queue.put
AddBegin(c, url, proxy) ==
    /\ addPc[c] = "idle"
    /\ Len(issued) < MaxJobs + 1
    /\ Register(uuid4, url, FALSE, proxy)
    /\ addPc' = [addPc EXCEPT ![c] = "test"]
    /\ addId' = [addId EXCEPT ![c] = uuid4]
    /\ UNCHANGED <<stop_flag, schedVars, workerVars, proxyVars, cancelVars,
                   clearVars, stopVars, pmVars, phase, returned, justAdded, queryVars,
                   batchVars>>

\* _ensure_queue_thread: the test of self.queue_thread; add_url returns the
\* id when the thread is alive
AddTest(c) ==
    /\ addPc[c] = "test"
    /\ IF queue_thread = 0 \/ ~Alive(queue_thread)
       THEN /\ addPc' = [addPc EXCEPT ![c] = "create"]
            /\ UNCHANGED <<addId, returned>>
       ELSE /\ addPc' = [addPc EXCEPT ![c] = "idle"]
            /\ addId' = [addId EXCEPT ![c] = 0]
            /\ returned' = returned \cup {addId[c]}
    /\ UNCHANGED <<registryVars, download_queue, stop_flag, issued, schedVars,
                   workerVars, proxyVars, cancelVars, clearVars, stopVars, pmVars, phase,
                   before, justAdded, queryVars, batchVars>>

\* _ensure_queue_thread: stop_flag.clear() and the assignment of a new
\* Thread to self.queue_thread
AddCreate(c) ==
    /\ addPc[c] = "create"
    /\ FreeThreads # {}
    /\ stop_flag' = FALSE
    /\ queue_thread' = NewThread
    /\ schedPc' = [schedPc EXCEPT ![NewThread] = "new"]
    /\ futures' = [futures EXCEPT ![NewThread] = {}]
    /\ cur' = [cur EXCEPT ![NewThread] = 0]
    /\ addPc' = [addPc EXCEPT ![c] = "start"]
    /\ UNCHANGED <<registryVars, download_queue, issued, workerVars, proxyVars,
                   cancelVars, clearVars, stopVars, pmVars, phase, addId, histVars, queryVars,
                   batchVars>>

\* _ensure_queue_thread: self.queue_thread.start(), on whatever thread the
\* attribute refers to by now; starting a thread a second time raises
\* RuntimeError and add_url returns no id
AddStart(c) ==
    /\ addPc[c] = "start"
    /\ IF schedPc[queue_thread] = "new"
       THEN /\ schedPc' = [schedPc EXCEPT ![queue_thread] = "loop"]
            /\ returned' = returned \cup {addId[c]}
       ELSE UNCHANGED <<schedPc, returned>>
    /\ addPc' = [addPc EXCEPT ![c] = "idle"]
    /\ addId' = [addId EXCEPT ![c] = 0]
    /\ UNCHANGED <<registryVars, download_queue, stop_flag, issued,
                   queue_thread, cur, futures, workerVars, proxyVars,
                   cancelVars, clearVars, stopVars, pmVars, phase, before, justAdded,
                   queryVars, batchVars>>

\* mutant of NextUrl: the loop of add_urls takes the last URL of the list
LastUrl(urls) == urls[Len(urls)]

\* `for url in urls`: the URL of the next iteration
NextUrl(urls) == Head(urls)

\* add_urls(urls, proxy=proxy), up to the loop; src is what add_from_file
\* read the URLs from
AddUrlsStart(urls, proxy, src) ==
    /\ batchPc = "idle"
    /\ Len(issued) + Len(urls) <= MaxJobs
    /\ batchPc' = "loop"
    /\ batchArg' = urls
    /\ batchUrls' = urls
    /\ batchIds' = <<>>
    /\ batchProxy' = proxy
    /\ batchSrc' = src
    /\ batchErr' = None
    /\ UNCHANGED <<registryVars, download_queue, stop_flag, issued, schedVars,
                   workerVars, proxyVars, cancelVars, clearVars, stopVars, pmVars, phase,
                   addVars, histVars, queryVars>>

\* a caller's add_urls(urls, proxy=proxy)
AddUrls(urls, proxy) == AddUrlsStart(urls, proxy, NoPath)

\* add_urls: one iteration of the loop, an add_url call whose id is appended
\* to download_ids; after the last one, `return download_ids`
AddUrlsStep ==
    /\ batchPc = "loop"
    /\ batchSrc' = NoPath
    /\ UNCHANGED phase
    /\ IF batchUrls = <<>>
       THEN /\ batchPc' = "idle"
            /\ UNCHANGED <<batchArg, batchUrls, batchIds, batchProxy, batchErr>>
            /\ UNCHANGED <<registryVars, download_queue, stop_flag, issued,
                           schedVars, workerVars, proxyVars, cancelVars,
                           clearVars, stopVars, addVars, histVars, queryVars,
                           pmVars>>
       ELSE /\ add_url(NextUrl(batchUrls), batchProxy)
            /\ batchIds' = Append(batchIds, uuid4)
            /\ batchUrls' = Tail(batchUrls)
            /\ UNCHANGED <<batchPc, batchArg, batchProxy, batchErr>>

\* str.strip(): the line without the whitespace at its two ends
RECURSIVE lstrip(_)
lstrip(line) ==
    IF line # <<>> /\ Head(line) = " " THEN lstrip(Tail(line)) ELSE line

RECURSIVE rstrip(_)
rstrip(line) ==
    IF line # <<>> /\ line[Len(line)] = " "
    THEN rstrip(SubSeq(line, 1, Len(line) - 1))
    ELSE line

strip(line) == rstrip(lstrip(line))

\* str.startswith(prefix) for a prefix of one character
startswith(line, prefix) == line # <<>> /\ Head(line) = prefix

\* mutant of KeepsLine: the tests are made on the line as it was read
KeepsLineUnstripped(line) == line # <<>> /\ ~startswith(line, "#")

\* the condition of the list comprehension of read_urls_from_file
KeepsLine(line) == strip(line) # <<>> /\ ~startswith(strip(line), "#")

\* [line.strip() for line in f if line.strip() and not ...startswith('#')]
RECURSIVE StrippedLines(_)
StrippedLines(lines) ==
    IF lines = <<>>
    THEN <<>>
    ELSE (IF KeepsLine(Head(lines)) THEN <<strip(Head(lines))>> ELSE <<>>)
         \o StrippedLines(Tail(lines))

\* os.path.exists(file_path)
exists(file_path) == file_path.kind = "file"

\* read_urls_from_file(file_path), called where the file exists
read_urls_from_file(file_path) == StrippedLines(file_path.lines)

\* a caller's add_from_file(file_path, proxy=proxy): read_urls_from_file
\* raises FileNotFoundError before anything else is done, or its result is
\* passed to add_urls
AddFromFile(file_path, proxy) ==
    /\ batchPc = "idle"
    /\ IF exists(file_path)
       THEN AddUrlsStart(read_urls_from_file(file_path), proxy, file_path)
       ELSE /\ batchErr' = "FileNotFoundError"
            /\ batchSrc' = file_path
            /\ UNCHANGED <<batchPc, batchArg, batchUrls, batchIds, batchProxy>>
            /\ UNCHANGED <<registryVars, download_queue, stop_flag, issued,
                           schedVars, workerVars, proxyVars, cancelVars,
                           clearVars, stopVars, addVars, histVars, queryVars,
                           pmVars, phase>>

\* get_download(id): self.downloads.get(id), the job's dict itself, or None
GetDownload(id) ==
    /\ view' = IF id \in DOMAIN downloads THEN {id} ELSE {}
    /\ viewSeen' = [i \in view' |-> downloads[i]]
    /\ viewKind' = IF id = justAdded THEN "new" ELSE "one"
    /\ justAdded' = 0
    /\ UNCHANGED <<registryVars, download_queue, stop_flag, issued, schedVars,
                   workerVars, proxyVars, cancelVars, clearVars, stopVars, pmVars, phase,
                   addVars, returned, before, batchVars>>

\* get_all_downloads(): self.downloads.copy(), a new dict that maps the ids
\* to the same job dicts
GetAllDownloads ==
    /\ view' = DOMAIN downloads
    /\ viewSeen' = downloads
    /\ viewKind' = "all"
    /\ justAdded' = 0
    /\ UNCHANGED <<registryVars, download_queue, stop_flag, issued, schedVars,
                   workerVars, proxyVars, cancelVars, clearVars, stopVars, pmVars, phase,
                   addVars, returned, before, batchVars>>

\* what the caller reads now through the result it holds: the result refers
\* to the job dicts of the registry, not to copies of them
Deref(id) == downloads[id]

\* is_youtube_url(url): of the URLs submitted, "u1" is a YouTube URL and
\* "u2" is not
is_youtube_url(url) == url = "u1"

\* the Downloader the try block of _download calls for a job; "invalid"
\* where it raises ValueError instead
Backend(d) ==
    IF d.use_aria2 /\ aria2 THEN "aria2"
    ELSE IF is_youtube_url(d.url) THEN "ytdlp"
    ELSE IF aria2 THEN "aria2"
    ELSE "invalid"

\* str(hash(url + output_path)), the key a Downloader stores a transfer
\* under; the output path is made from the URL and the download directory
HashKey(url) == <<"hash", url>>

\* str(uuid4()) as a key: the download_id of the BatchManager
UuidKey(id) == <<"uuid", id>>

\* the keys of YtdlpDownloader._active_downloads: an entry is made when
\* download() begins and deleted in its `finally`
ActiveDownloads ==
    {HashKey(wurl[i]) : i \in {j \in IDs : transfer[j] = "ytdlp"
                                            /\ future[j] = "running"}}

\* YtdlpDownloader.cancel_download(key): whether the key is one of its
\* transfers; the transfer itself is not touched
YtdlpCancel(key) == key \in ActiveDownloads

\* the aria2 process of a job is over: it ended by itself or was terminated
ProcessOver(id) == future[id] # "running" \/ id \in terminated

\* the key cancel_download passes to ytdlp.cancel_download (line 180)
CancelKey(id) == UuidKey(id)

\* cancel_download for a job that is 'downloading' (lines 175-180):
\* aria2.cancel_download(url) terminates the process stored under the key of
\* the URL and deletes the entry; ytdlp.cancel_download(download_id) changes
\* no transfer
CancelSignal(d) ==
    IF d.use_aria2 /\ aria2
    THEN LET pid == processes[d.url]
         IN  /\ processes' = [processes EXCEPT ![d.url] = 0]
             /\ terminated' = IF pid # 0 /\ future[pid] = "running"
                               THEN terminated \cup {pid}
                               ELSE terminated
    ELSE UNCHANGED <<processes, terminated>>

\* mutant of Cancelled: the cancellation is written into the error field
CancelledWithError(d) ==
    [d EXCEPT !.status = "cancelled", !.completed_at = "set",
              !.error = "cancelled"]

\* mutant of Cancelled: the status is left as it is
CancelledNot(d) == d

\* the locked block of cancel_download
Cancelled(d) == [d EXCEPT !.status = "cancelled", !.completed_at = "set"]

\* cancel_download(id), up to the `in self.downloads` test: an unknown id
\* returns False at once
CancelCheck(id) ==
    /\ cancelPc = "idle"
    /\ IF id \notin DOMAIN downloads
       THEN UNCHANGED <<cancelPc, cancelId>>
       ELSE /\ cancelPc' = "body"
            /\ cancelId' = id
    /\ UNCHANGED <<registryVars, download_queue, stop_flag, issued, schedVars,
                   workerVars, proxyVars, clearVars, stopVars>>
    /\ UNCHANGED callVars

\* what the rest of cancel_download returns, or the error it raises, in the
\* current state
CancelResult ==
    IF cancelId \notin DOMAIN downloads THEN "KeyError"
    ELSE IF downloads[cancelId].status \in Terminal THEN "False"
    ELSE "True"

\* cancel_download, from `with self.locks.get(...)` to its return
CancelBody ==
    /\ cancelPc = "body"
    /\ LockFree(cancelId)
    /\ cancelPc' = "idle"
    /\ cancelId' = 0
    /\ IF CancelResult = "True"
       THEN /\ downloads' = [downloads EXCEPT ![cancelId] = Cancelled(@)]
            /\ IF downloads[cancelId].status = "downloading"
               THEN CancelSignal(downloads[cancelId])
               ELSE UNCHANGED <<processes, terminated>>
       ELSE UNCHANGED <<downloads, processes, terminated>>
    /\ UNCHANGED <<locks, download_queue, stop_flag, issued, schedVars,
                   future, wproxy, marked, wurl, aria2, transfer, proxyVars,
                   clearVars, stopVars>>
    /\ UNCHANGED callVars

\* list(self.downloads.keys()): the keys in insertion order
Keys == SelectSeq(issued, LAMBDA i : i \in DOMAIN downloads)

\* clear_completed, up to the first iteration; base is what the run keeps
\* of the registry the call found
ClearStart(base) ==
    /\ clearPc = "idle"
    /\ Keys # <<>>
    /\ clearPc' = "acquire"
    /\ clearKeys' = Keys
    /\ cleared' = 0
    /\ clearBase' = base
    /\ UNCHANGED <<clearHeld, clearSt>>
    /\ UNCHANGED <<registryVars, download_queue, stop_flag, issued, schedVars,
                   workerVars, proxyVars, cancelVars, stopVars>>
    /\ UNCHANGED callVars

\* clear_completed called while other threads run
ClearBegin == ClearStart(<<>>)

\* clear_completed called while every other thread is at rest
ClearBeginAlone == ClearStart(downloads)

\* clear_completed: enter the job's lock and read its status
ClearAcquire ==
    /\ clearPc = "acquire"
    /\ LET id == Head(clearKeys)
       IN  /\ clearHeld' = id
           /\ clearSt' = downloads[id].status
    /\ clearPc' = "delete"
    /\ UNCHANGED <<clearKeys, cleared, clearBase>>
    /\ UNCHANGED <<registryVars, download_queue, stop_flag, issued, schedVars,
                   workerVars, proxyVars, cancelVars, stopVars>>
    /\ UNCHANGED callVars

\* mutant of ClearResult: every job the loop visits is counted
ClearResultAll == cleared + 1

\* what clear_completed returns when the iteration it is in is the last one
ClearResult == cleared + (IF clearSt \in Terminal THEN 1 ELSE 0)

\* clear_completed: delete the job if the status read is terminal and count
\* it, leave the lock; after the last key, return
ClearDelete ==
    /\ clearPc = "delete"
    /\ LET id == clearHeld
       IN  IF clearSt \in Terminal
           THEN /\ downloads' = [i \in DOMAIN downloads \ {id} |-> downloads[i]]
                /\ locks' = locks \ {id}
           ELSE UNCHANGED <<downloads, locks>>
    /\ clearHeld' = 0
    /\ clearSt' = None
    /\ clearKeys' = Tail(clearKeys)
    /\ IF Tail(clearKeys) = <<>>
       THEN /\ clearPc' = "idle"
            /\ cleared' = 0
            /\ clearBase' = <<>>
       ELSE /\ clearPc' = "acquire"
            /\ cleared' = ClearResult
            /\ UNCHANGED clearBase
    /\ UNCHANGED <<download_queue, stop_flag, issued, schedVars,
                   workerVars, proxyVars, cancelVars, stopVars>>
    /\ UNCHANGED callVars

\* the jobs stop() finds unfinished
Outstanding ==
    [id \in {i \in DOMAIN downloads :
                downloads[i].status \in {"queued", "downloading"}}
        |-> downloads[id].status]

\* stop: set the flag and start iterating self.downloads.items(); snap is
\* what the run keeps of the jobs the call found
StopStart(snap) ==
    /\ stopPc = "idle"
    /\ stop_flag' = TRUE
    /\ stopPc' = "iter"
    /\ stopIdx' = 1
    /\ stopLen' = Cardinality(DOMAIN downloads)
    /\ stopSnap' = snap
    /\ UNCHANGED <<registryVars, download_queue, issued, schedVars,
                   workerVars, proxyVars, cancelVars, clearVars>>
    /\ UNCHANGED facadeVars

\* stop() called in a run that does not look at what it found
StopBegin ==
    /\ StopStart(<<>>)
    /\ UNCHANGED phase

\* stop() called in a run that compares its effect with what it found
StopBeginSnap ==
    /\ StopStart(Outstanding)
    /\ UNCHANGED phase

\* stop() called in the run that looks at what follows it, where it is
\* called once
StopOnce ==
    /\ phase = "run"
    /\ StopStart(<<>>)
    /\ phase' = "stopped"

\* stop: one iteration of the loop (RuntimeError when the dict changed size),
\* cancel_download for a job that is 'downloading'; after the last one the
\* join, which changes nothing
StopIter ==
    /\ stopPc = "iter"
    /\ IF Cardinality(DOMAIN downloads) # stopLen \/ stopIdx > Len(issued)
       THEN /\ stopPc' = "idle"
            /\ stopIdx' = 0
            /\ stopLen' = 0
            /\ stopSnap' = <<>>
            /\ UNCHANGED <<downloads, processes, terminated>>
       ELSE LET id == issued[stopIdx]
            IN  /\ stopIdx' = stopIdx + 1
                /\ UNCHANGED <<stopPc, stopLen, stopSnap>>
                /\ IF id \in DOMAIN downloads /\ downloads[id].status = "downloading"
                   THEN /\ LockFree(id)
                        /\ downloads' = [downloads EXCEPT ![id] = Cancelled(@)]
                        /\ CancelSignal(downloads[id])
                   ELSE UNCHANGED <<downloads, processes, terminated>>
    /\ UNCHANGED <<locks, download_queue, stop_flag, issued, schedVars,
                   future, wproxy, marked, wurl, aria2, transfer, proxyVars,
                   cancelVars, clearVars>>
    /\ UNCHANGED callVars

\* --------------------------------------------------------------- scheduler
Pending(id) == future[id] \in {"submitted", "running"}

\* `while not self.stop_flag.is_set()` (with the redundant test before it)
SchedLoop(t) ==
    /\ schedPc[t] = "loop"
    /\ schedPc' = [schedPc EXCEPT ![t] = IF stop_flag THEN "shutdown" ELSE "inner"]
    /\ UNCHANGED <<queue_thread, cur, futures>>
    /\ UNCHANGED <<registryVars, download_queue, stop_flag, issued,
                   workerVars, proxyVars, cancelVars, clearVars, stopVars>>
    /\ UNCHANGED callVars

\* the inner `while` test and download_queue.get(block=False)
SchedGet(t) ==
    /\ schedPc[t] = "inner"
    /\ IF Cardinality(futures[t]) < max_concurrent /\ download_queue # <<>>
       THEN /\ cur' = [cur EXCEPT ![t] = Head(download_queue)]
            /\ download_queue' = Tail(download_queue)
            /\ schedPc' = [schedPc EXCEPT ![t] = "check"]
       ELSE /\ schedPc' = [schedPc EXCEPT ![t] = "poll"]
            /\ UNCHANGED <<cur, download_queue>>
    /\ UNCHANGED <<queue_thread, futures, registryVars, stop_flag, issued,
                   workerVars, proxyVars, cancelVars, clearVars, stopVars>>
    /\ UNCHANGED callVars

\* `if self.downloads[download_id]['status'] == 'cancelled'`, read without
\* the lock; a KeyError ends the thread
SchedCheck(t) ==
    /\ schedPc[t] = "check"
    /\ schedPc' = [schedPc EXCEPT ![t] =
                      IF cur[t] \notin DOMAIN downloads THEN "shutdown"
                      ELSE IF downloads[cur[t]].status = "cancelled" THEN "inner"
                      ELSE "mark"]
    /\ UNCHANGED <<queue_thread, cur, futures>>
    /\ UNCHANGED <<registryVars, download_queue, stop_flag, issued,
                   workerVars, proxyVars, cancelVars, clearVars, stopVars>>
    /\ UNCHANGED callVars

\* the locked status update and executor.submit; a KeyError ends the thread
SchedMark(t) ==
    /\ schedPc[t] = "mark"
    /\ IF cur[t] \notin locks
       THEN /\ schedPc' = [schedPc EXCEPT ![t] = "shutdown"]
            /\ UNCHANGED <<downloads, futures, future>>
       ELSE /\ LockFree(cur[t])
            /\ downloads' = [downloads EXCEPT ![cur[t]].status = "downloading",
                                              ![cur[t]].started_at = "set"]
            /\ futures' = [futures EXCEPT ![t] = @ \cup {cur[t]}]
            /\ future' = [future EXCEPT ![cur[t]] = "submitted"]
            /\ schedPc' = [schedPc EXCEPT ![t] = "inner"]
    /\ UNCHANGED <<queue_thread, cur, locks, download_queue, stop_flag, issued,
                   wproxy, marked, backendVars, proxyVars, cancelVars,
                   clearVars, stopVars>>
    /\ UNCHANGED callVars

\* list(as_completed(futures.keys(), timeout=0.1)) when every future is done
\* within the timeout
SchedPoll(t) ==
    /\ schedPc[t] = "poll"
    /\ \A id \in futures[t] : ~Pending(id)
    /\ schedPc' = [schedPc EXCEPT ![t] = IF futures[t] = {} THEN "loop" ELSE "record"]
    /\ UNCHANGED <<queue_thread, cur, futures>>
    /\ UNCHANGED <<registryVars, download_queue, stop_flag, issued,
                   workerVars, proxyVars, cancelVars, clearVars, stopVars>>
    /\ UNCHANGED callVars

\* the same call when a future is still unfinished after 0.1 s: as_completed
\* raises TimeoutError, which nothing in _process_queue catches
SchedPollTimeout(t) ==
    /\ schedPc[t] = "poll"
    /\ \E id \in futures[t] : Pending(id)
    /\ schedPc' = [schedPc EXCEPT ![t] = "shutdown"]
    /\ UNCHANGED <<queue_thread, cur, futures>>
    /\ UNCHANGED <<registryVars, download_queue, stop_flag, issued,
                   workerVars, proxyVars, cancelVars, clearVars, stopVars>>
    /\ UNCHANGED callVars

\* mutant of Recorded: a failed download is put back to 'queued'
RecordedRetry(d, f) ==
    IF f = "ret"
    THEN [d EXCEPT !.status = "completed", !.output_file = "file",
                   !.completed_at = "set", !.progress = 100]
    ELSE [d EXCEPT !.status = "queued", !.error = "x"]

\* what the loop over the completed futures writes for one of them
Recorded(d, f) ==
    IF f = "ret"
    THEN [d EXCEPT !.status = "completed", !.output_file = "file",
                   !.completed_at = "set", !.progress = 100]
    ELSE [d EXCEPT !.status = "failed", !.error = "x", !.completed_at = "set"]

\* one iteration of the loop over the completed futures; self.locks[id]
\* raises KeyError for a cleared job, also inside the except block
SchedRecord(t, id) ==
    /\ schedPc[t] = "record"
    /\ id \in futures[t]
    /\ IF id \notin locks
       THEN /\ schedPc' = [schedPc EXCEPT ![t] = "shutdown"]
            /\ UNCHANGED <<downloads, futures, future>>
       ELSE /\ LockFree(id)
            /\ downloads' = [downloads EXCEPT ![id] = Recorded(@, future[id])]
            /\ futures' = [futures EXCEPT ![t] = @ \ {id}]
            /\ UNCHANGED future
            /\ schedPc' = [schedPc EXCEPT ![t] =
                              IF futures[t] = {id} THEN "loop" ELSE "record"]
    /\ UNCHANGED <<queue_thread, cur, locks, download_queue, stop_flag, issued,
                   wproxy, marked, backendVars, proxyVars, cancelVars,
                   clearVars, stopVars>>
    /\ UNCHANGED callVars

\* leaving `with ThreadPoolExecutor(...)`: shutdown(wait=True) returns when
\* the workers are done, then the thread ends
SchedExit(t) ==
    /\ schedPc[t] = "shutdown"
    /\ \A id \in futures[t] : ~Pending(id)
    /\ schedPc' = [schedPc EXCEPT ![t] = "dead"]
    /\ futures' = [futures EXCEPT ![t] = {}]
    /\ cur' = [cur EXCEPT ![t] = 0]
    /\ UNCHANGED <<queue_thread, registryVars, download_queue, stop_flag, issued,
                   workerVars, proxyVars, cancelVars, clearVars, stopVars>>
    /\ UNCHANGED callVars

\* The steps of one queue thread
SchedStep(t) ==
    \/ SchedLoop(t)
    \/ SchedGet(t)
    \/ SchedCheck(t)
    \/ SchedMark(t)
    \/ SchedPoll(t)
    \/ SchedPollTimeout(t)
    \/ \E id \in IDs : SchedRecord(t, id)
    \/ SchedExit(t)

\* ----------------------------------------------------------------- workers
\* _download up to the Downloader call: read the entry (KeyError for a
\* cleared job, outside the try block) and resolve the proxy
WorkerStart(id) ==
    /\ future[id] = "submitted"
    /\ IF id \notin DOMAIN downloads
       THEN /\ future' = [future EXCEPT ![id] = "keyerror"]
            /\ UNCHANGED <<wproxy, failed_proxies, wurl, transfer, processes>>
       ELSE /\ future' = [future EXCEPT ![id] = "running"]
            /\ IF downloads[id].proxy # None
               THEN /\ wproxy' = [wproxy EXCEPT ![id] = downloads[id].proxy]
                    /\ UNCHANGED failed_proxies
               ELSE /\ \E p \in GetProxyChoices(failed_proxies) :
                           wproxy' = [wproxy EXCEPT ![id] = p]
                    /\ failed_proxies' = GetProxyState(failed_proxies)
            /\ wurl' = [wurl EXCEPT ![id] = downloads[id].url]
            /\ transfer' = [transfer EXCEPT ![id] = Backend(downloads[id])]
            /\ processes' = IF Backend(downloads[id]) = "aria2"
                            THEN [processes EXCEPT ![downloads[id].url] = id]
                            ELSE processes
    /\ UNCHANGED <<marked, aria2, terminated, proxies, registryVars,
                   download_queue, stop_flag, issued, schedVars, cancelVars,
                   clearVars, stopVars>>
    /\ UNCHANGED callVars

\* progress_callback(url, d, t), called by the backend during the transfer
Progress(id, d, t) ==
    /\ future[id] = "running"
    /\ transfer[id] # "invalid"
    /\ id \in locks
    /\ LockFree(id)
    /\ downloads' = [downloads EXCEPT ![id].progress = Percent(d, t),
                                      ![id].downloaded_bytes = d,
                                      ![id].total_bytes = t]
    /\ UNCHANGED <<locks, download_queue, stop_flag, issued, schedVars,
                   workerVars, proxyVars, cancelVars, clearVars, stopVars>>
    /\ UNCHANGED callVars

\* the Downloader returns the output file: no ValueError was raised and the
\* aria2 process, if it is one, ended with exit code 0; Aria2Downloader
\* then deletes the entry under the key of the URL
WorkerReturn(id) ==
    /\ future[id] = "running"
    /\ transfer[id] # "invalid"
    /\ id \notin terminated
    /\ future' = [future EXCEPT ![id] = "ret"]
    /\ processes' = IF transfer[id] = "ytdlp"
                    THEN processes
                    ELSE [processes EXCEPT ![wurl[id]] = 0]
    /\ UNCHANGED <<wproxy, marked, wurl, aria2, transfer, terminated, proxyVars,
                   registryVars, download_queue, stop_flag, issued, schedVars,
                   cancelVars, clearVars, stopVars>>
    /\ UNCHANGED callVars

\* the Downloader raises: the except block of _download reports the proxy
WorkerRaise(id) ==
    /\ future[id] = "running"
    /\ future' = [future EXCEPT ![id] = "exc"]
    /\ IF wproxy[id] # None
       THEN /\ marked' = [marked EXCEPT ![id] = @ + 1]
            /\ failed_proxies' = MarkFailure(failed_proxies, wproxy[id])
       ELSE UNCHANGED <<marked, failed_proxies>>
    /\ UNCHANGED <<wproxy, backendVars, proxies, registryVars, download_queue,
                   stop_flag, issued, schedVars, cancelVars, clearVars, stopVars>>
    /\ UNCHANGED callVars

\* the (file_size, file_size) report the progress thread of an aria2 call
\* ends with: none where the output file does not exist, an empty file, a
\* file of two bytes
FinalReports == {<<>>, <<0, 0>>, <<2, 2>>}

\* progress_callback called from the progress thread of an aria2 call;
\* self.locks[download_id] raises KeyError for a cleared job
Callback(id, d, t) ==
    IF id \in locks
    THEN /\ LockFree(id)
         /\ downloads' = [downloads EXCEPT ![id].progress = Percent(d, t),
                                           ![id].downloaded_bytes = d,
                                           ![id].total_bytes = t]
    ELSE UNCHANGED downloads

\* _monitor_progress: the on_progress call of the iteration during which the
\* process ended
MonitorReport(id, d, t) ==
    /\ transfer[id] = "aria2"
    /\ ProcessOver(id)
    /\ Callback(id, d, t)
    /\ transfer' = [transfer EXCEPT ![id] = "final"]
    /\ UNCHANGED <<locks, download_queue, stop_flag, issued, schedVars,
                   future, wproxy, marked, wurl, aria2, processes, terminated,
                   proxyVars, cancelVars, clearVars, stopVars>>
    /\ UNCHANGED callVars

\* _monitor_progress after its loop: the final progress update, made when
\* the output file exists
MonitorFinal(id, r) ==
    /\ transfer[id] \in {"aria2", "final"}
    /\ ProcessOver(id)
    /\ IF r = <<>> THEN UNCHANGED downloads ELSE Callback(id, r[1], r[2])
    /\ transfer' = [transfer EXCEPT ![id] = "done"]
    /\ UNCHANGED <<locks, download_queue, stop_flag, issued, schedVars,
                   future, wproxy, marked, wurl, aria2, processes, terminated,
                   proxyVars, cancelVars, clearVars, stopVars>>
    /\ UNCHANGED callVars

\* ----------------------------------------------------------- specification
Next ==
    \/ AddUrl("u1", None)
    \/ \E id \in IDs : CancelCheck(id)
    \/ CancelBody
    \/ ClearBegin
    \/ ClearAcquire
    \/ ClearDelete
    \/ StopBegin
    \/ StopIter
    \/ \E t \in Threads : SchedLoop(t)
    \/ \E t \in Threads : SchedGet(t)
    \/ \E t \in Threads : SchedCheck(t)
    \/ \E t \in Threads : SchedMark(t)
    \/ \E t \in Threads : SchedPoll(t)
    \/ \E t \in Threads : SchedPollTimeout(t)
    \/ \E t \in Threads, id \in IDs : SchedRecord(t, id)
    \/ \E t \in Threads : SchedExit(t)
    \/ \E id \in IDs : WorkerStart(id)
    \/ \E id \in IDs, r \in Reports : Progress(id, r[1], r[2])
    \/ \E id \in IDs : WorkerReturn(id)
    \/ \E id \in IDs : WorkerRaise(id)

Spec == Init /\ [][Next]_vars

\* The engine without stop() and without progress reports: submission,
\* cancellation, clear_completed, the queue thread and the workers.
NextRegistry ==
    \/ AddUrl("u1", None)
    \/ \E id \in IDs : CancelCheck(id)
    \/ CancelBody
    \/ ClearBegin
    \/ ClearAcquire
    \/ ClearDelete
    \/ \E t \in Threads : SchedLoop(t)
    \/ \E t \in Threads : SchedGet(t)
    \/ \E t \in Threads : SchedCheck(t)
    \/ \E t \in Threads : SchedMark(t)
    \/ \E t \in Threads : SchedPoll(t)
    \/ \E t \in Threads : SchedPollTimeout(t)
    \/ \E t \in Threads, id \in IDs : SchedRecord(t, id)
    \/ \E t \in Threads : SchedExit(t)
    \/ \E id \in IDs : WorkerStart(id)
    \/ \E id \in IDs : WorkerReturn(id)
    \/ \E id \in IDs : WorkerRaise(id)

SpecRegistry == Init /\ [][NextRegistry]_vars

\* Submission, cancellation, the queue thread and the workers: stop() and
\* clear_completed are never called.
NextRun ==
    \/ AddUrl("u1", None)
    \/ \E id \in IDs : CancelCheck(id)
    \/ CancelBody
    \/ \E t \in Threads : SchedLoop(t)
    \/ \E t \in Threads : SchedGet(t)
    \/ \E t \in Threads : SchedCheck(t)
    \/ \E t \in Threads : SchedMark(t)
    \/ \E t \in Threads : SchedPoll(t)
    \/ \E t \in Threads : SchedPollTimeout(t)
    \/ \E t \in Threads, id \in IDs : SchedRecord(t, id)
    \/ \E t \in Threads : SchedExit(t)
    \/ \E id \in IDs : WorkerStart(id)
    \/ \E id \in IDs : WorkerReturn(id)
    \/ \E id \in IDs : WorkerRaise(id)

\* Threads keep running: the queue thread takes its next step, a worker
\* starts and its Downloader call returns or raises in finite time, and a
\* caller inside cancel_download finishes the call.
SpecLive ==
    /\ Init
    /\ [][NextRun]_vars
    /\ \A t \in Threads : WF_vars(SchedStep(t))
    /\ \A id \in IDs :
          WF_vars(WorkerStart(id) \/ WorkerReturn(id) \/ WorkerRaise(id))
    /\ WF_vars(CancelBody)

\* Jobs submitted with and without a proxy of their own, to a manager with
\* and without a configured proxy; no stop(), no clear_completed.
NextProxy ==
    \/ \E proxy \in ExplicitProxies : AddUrl("u1", proxy)
    \/ \E id \in IDs : CancelCheck(id)
    \/ CancelBody
    \/ \E t \in Threads : SchedLoop(t)
    \/ \E t \in Threads : SchedGet(t)
    \/ \E t \in Threads : SchedCheck(t)
    \/ \E t \in Threads : SchedMark(t)
    \/ \E t \in Threads : SchedPoll(t)
    \/ \E t \in Threads : SchedPollTimeout(t)
    \/ \E t \in Threads, id \in IDs : SchedRecord(t, id)
    \/ \E t \in Threads : SchedExit(t)
    \/ \E id \in IDs : WorkerStart(id)
    \/ \E id \in IDs : WorkerReturn(id)
    \/ \E id \in IDs : WorkerRaise(id)

SpecProxy == InitProxy /\ [][NextProxy]_vars

\* Submission, the two queries, cancellation, the queue thread, the workers
\* and their progress reports.
NextQuery ==
    \/ AddUrl("u1", None)
    \/ \E id \in IDs : GetDownload(id)
    \/ GetAllDownloads
    \/ \E id \in IDs : CancelCheck(id)
    \/ CancelBody
    \/ \E t \in Threads : SchedLoop(t)
    \/ \E t \in Threads : SchedGet(t)
    \/ \E t \in Threads : SchedCheck(t)
    \/ \E t \in Threads : SchedMark(t)
    \/ \E t \in Threads : SchedPoll(t)
    \/ \E t \in Threads : SchedPollTimeout(t)
    \/ \E t \in Threads, id \in IDs : SchedRecord(t, id)
    \/ \E t \in Threads : SchedExit(t)
    \/ \E id \in IDs : WorkerStart(id)
    \/ \E id \in IDs, r \in Reports : Progress(id, r[1], r[2])
    \/ \E id \in IDs : WorkerReturn(id)
    \/ \E id \in IDs : WorkerRaise(id)

SpecQuery == Init /\ [][NextQuery]_vars

\* Submission of either URL, each followed or not by get_download for the id
\* it returned, the queue thread and the workers; no other facade call.
NextRoundTrip ==
    \/ \E url \in URLs : AddUrl(url, None)
    \/ (justAdded # 0 /\ GetDownload(justAdded))
    \/ \E t \in Threads : SchedLoop(t)
    \/ \E t \in Threads : SchedGet(t)
    \/ \E t \in Threads : SchedCheck(t)
    \/ \E t \in Threads : SchedMark(t)
    \/ \E t \in Threads : SchedPoll(t)
    \/ \E t \in Threads : SchedPollTimeout(t)
    \/ \E t \in Threads, id \in IDs : SchedRecord(t, id)
    \/ \E t \in Threads : SchedExit(t)
    \/ \E id \in IDs : WorkerStart(id)
    \/ \E id \in IDs : WorkerReturn(id)
    \/ \E id \in IDs : WorkerRaise(id)

SpecRoundTrip == Init /\ [][NextRoundTrip]_vars

\* add_url called by two threads at the same time, the queue threads they
\* start and the workers, whose Downloader calls return.
NextThreads ==
    \/ \E c \in Callers : AddBegin(c, "u1", None)
    \/ \E c \in Callers : AddTest(c)
    \/ \E c \in Callers : AddCreate(c)
    \/ \E c \in Callers : AddStart(c)
    \/ \E t \in Threads : SchedLoop(t)
    \/ \E t \in Threads : SchedGet(t)
    \/ \E t \in Threads : SchedCheck(t)
    \/ \E t \in Threads : SchedMark(t)
    \/ \E t \in Threads : SchedPoll(t)
    \/ \E t \in Threads : SchedPollTimeout(t)
    \/ \E t \in Threads, id \in IDs : SchedRecord(t, id)
    \/ \E t \in Threads : SchedExit(t)
    \/ \E id \in IDs : WorkerStart(id)
    \/ \E id \in IDs : WorkerReturn(id)

SpecThreads == Init /\ [][NextThreads]_vars

\* Submission, stop(), the queue thread and the workers; what each stop()
\* call found is kept until it returns.
NextStop ==
    \/ AddUrl("u1", None)
    \/ StopBeginSnap
    \/ StopIter
    \/ \E t \in Threads : SchedLoop(t)
    \/ \E t \in Threads : SchedGet(t)
    \/ \E t \in Threads : SchedCheck(t)
    \/ \E t \in Threads : SchedMark(t)
    \/ \E t \in Threads : SchedPoll(t)
    \/ \E t \in Threads : SchedPollTimeout(t)
    \/ \E t \in Threads, id \in IDs : SchedRecord(t, id)
    \/ \E t \in Threads : SchedExit(t)
    \/ \E id \in IDs : WorkerStart(id)
    \/ \E id \in IDs : WorkerReturn(id)
    \/ \E id \in IDs : WorkerRaise(id)

SpecStop == Init /\ [][NextStop]_vars

\* Submission, cancellation, stop() and the restart of the queue thread by a
\* later add_url, the queue threads and the workers.
NextRestart ==
    \/ AddUrl("u1", None)
    \/ \E id \in IDs : CancelCheck(id)
    \/ CancelBody
    \/ StopBegin
    \/ StopIter
    \/ \E t \in Threads : SchedLoop(t)
    \/ \E t \in Threads : SchedGet(t)
    \/ \E t \in Threads : SchedCheck(t)
    \/ \E t \in Threads : SchedMark(t)
    \/ \E t \in Threads : SchedPoll(t)
    \/ \E t \in Threads : SchedPollTimeout(t)
    \/ \E t \in Threads, id \in IDs : SchedRecord(t, id)
    \/ \E t \in Threads : SchedExit(t)
    \/ \E id \in IDs : WorkerStart(id)
    \/ \E id \in IDs : WorkerReturn(id)
    \/ \E id \in IDs : WorkerRaise(id)

SpecRestart == Init /\ [][NextRestart]_vars

\* Submission, cancellation, the queue thread and the workers, and
\* clear_completed calls during which no other thread takes a step.
NextClearAlone ==
    \/ ClearBeginAlone
    \/ ClearAcquire
    \/ ClearDelete
    \/ (clearPc = "idle" /\ AddUrl("u1", None))
    \/ (clearPc = "idle" /\ \E id \in IDs : CancelCheck(id))
    \/ (clearPc = "idle" /\ CancelBody)
    \/ (clearPc = "idle" /\ \E t \in Threads : SchedStep(t))
    \/ (clearPc = "idle" /\ \E id \in IDs : WorkerStart(id))
    \/ (clearPc = "idle" /\ \E id \in IDs : WorkerReturn(id))
    \/ (clearPc = "idle" /\ \E id \in IDs : WorkerRaise(id))

SpecClearAlone == Init /\ [][NextClearAlone]_vars

\* add_urls for every list of URLs, with and without a proxy, add_url calls
\* of other callers between its iterations, the queue thread and the workers.
NextBatch ==
    \/ \E urls \in UrlLists, proxy \in ExplicitProxies : AddUrls(urls, proxy)
    \/ AddUrlsStep
    \/ AddUrl("u1", None)
    \/ \E t \in Threads : SchedLoop(t)
    \/ \E t \in Threads : SchedGet(t)
    \/ \E t \in Threads : SchedCheck(t)
    \/ \E t \in Threads : SchedMark(t)
    \/ \E t \in Threads : SchedPoll(t)
    \/ \E t \in Threads : SchedPollTimeout(t)
    \/ \E t \in Threads, id \in IDs : SchedRecord(t, id)
    \/ \E t \in Threads : SchedExit(t)
    \/ \E id \in IDs : WorkerStart(id)
    \/ \E id \in IDs : WorkerReturn(id)
    \/ \E id \in IDs : WorkerRaise(id)

SpecBatch == Init /\ [][NextBatch]_vars

\* The callers alone: add_from_file for the absent path and for every file,
\* the iterations of its add_urls, and add_url calls of another caller
\* between them. No queue thread is scheduled meanwhile: add_from_file and
\* read_urls_from_file read nothing the queue thread or a worker writes.
NextFile ==
    \/ \E file_path \in Paths : AddFromFile(file_path, None)
    \/ AddUrlsStep
    \/ AddUrl(<<"b">>, None)

SpecFile == Init /\ [][NextFile]_vars

\* a BatchManager constructed where aria2 is installed, or where it is not
InitBackend ==
    /\ InitEngine
    /\ proxies = <<>>
    /\ aria2 \in BOOLEAN

\* Jobs for a YouTube URL and for another URL, submitted with and without
\* use_aria2; cancellation, the queue thread and the workers.
NextBackend ==
    \/ \E url \in URLs, use_aria2 \in BOOLEAN : AddUrlBackend(url, use_aria2)
    \/ \E id \in IDs : CancelCheck(id)
    \/ CancelBody
    \/ \E t \in Threads : SchedLoop(t)
    \/ \E t \in Threads : SchedGet(t)
    \/ \E t \in Threads : SchedCheck(t)
    \/ \E t \in Threads : SchedMark(t)
    \/ \E t \in Threads : SchedPoll(t)
    \/ \E t \in Threads : SchedPollTimeout(t)
    \/ \E t \in Threads, id \in IDs : SchedRecord(t, id)
    \/ \E t \in Threads : SchedExit(t)
    \/ \E id \in IDs : WorkerStart(id)
    \/ \E id \in IDs : WorkerReturn(id)
    \/ \E id \in IDs : WorkerRaise(id)

SpecBackend == InitBackend /\ [][NextBackend]_vars

\* Jobs for a YouTube URL, which yt-dlp runs, and for another URL, which
\* aria2 runs; cancellation, the queue thread, the workers, the progress
\* reports during a transfer and those the progress thread of an aria2 call
\* makes after its process ended.
NextLate ==
    \/ \E url \in URLs : AddUrl(url, None)
    \/ \E id \in IDs : CancelCheck(id)
    \/ CancelBody
    \/ \E t \in Threads : SchedLoop(t)
    \/ \E t \in Threads : SchedGet(t)
    \/ \E t \in Threads : SchedCheck(t)
    \/ \E t \in Threads : SchedMark(t)
    \/ \E t \in Threads : SchedPoll(t)
    \/ \E t \in Threads : SchedPollTimeout(t)
    \/ \E t \in Threads, id \in IDs : SchedRecord(t, id)
    \/ \E t \in Threads : SchedExit(t)
    \/ \E id \in IDs : WorkerStart(id)
    \/ \E id \in IDs, r \in Reports : Progress(id, r[1], r[2])
    \/ \E id \in IDs, r \in Reports : MonitorReport(id, r[1], r[2])
    \/ \E id \in IDs, r \in FinalReports : MonitorFinal(id, r)
    \/ \E id \in IDs : WorkerReturn(id)
    \/ \E id \in IDs : WorkerRaise(id)

SpecLate == Init /\ [][NextLate]_vars

\* Submission, one stop() call, the queue thread and the workers, where
\* every Downloader call ends within the timeout of as_completed.
NextResume ==
    \/ AddResume("u1")
    \/ StopOnce
    \/ StopIter
    \/ \E t \in Threads : SchedLoop(t)
    \/ \E t \in Threads : SchedGet(t)
    \/ \E t \in Threads : SchedCheck(t)
    \/ \E t \in Threads : SchedMark(t)
    \/ \E t \in Threads : SchedPoll(t)
    \/ \E t \in Threads, id \in IDs : SchedRecord(t, id)
    \/ \E t \in Threads : SchedExit(t)
    \/ \E id \in IDs : WorkerStart(id)
    \/ \E id \in IDs : WorkerReturn(id)
    \/ \E id \in IDs : WorkerRaise(id)

\* the steps of one queue thread whose as_completed call does not time out
SchedStepInTime(t) ==
    \/ SchedLoop(t)
    \/ SchedGet(t)
    \/ SchedCheck(t)
    \/ SchedMark(t)
    \/ SchedPoll(t)
    \/ \E id \in IDs : SchedRecord(t, id)
    \/ SchedExit(t)

\* Threads keep running: the queue threads take their next step, a worker
\* starts and its Downloader call returns or raises in finite time, and the
\* caller inside stop() finishes the call.
SpecResume ==
    /\ Init
    /\ [][NextResume]_vars
    /\ \A t \in Threads : WF_vars(SchedStepInTime(t))
    /\ \A id \in IDs :
          WF_vars(WorkerStart(id) \/ WorkerReturn(id) \/ WorkerRaise(id))
    /\ WF_vars(StopIter)

\* a ProxyManager that was given one proxy
InitMark ==
    /\ InitEngine
    /\ proxies = <<"pm1">>
    /\ aria2 = TRUE

\* Two threads that call mark_proxy_failure, for the configured proxy and
\* for one that is not configured; get_proxy is not called.
NextMark ==
    \/ \E c \in Callers, p \in {"pm1", "px"} : MarkBegin(c, p)
    \/ \E c \in Callers : MarkStore(c)

SpecMark == InitMark /\ [][NextMark]_vars

\* a ProxyManager that was given no proxy, or two
InitGet ==
    /\ InitEngine
    /\ proxies \in {<<>>, <<"pm1", "pm2">>}
    /\ aria2 = TRUE

\* Two threads that call get_proxy and mark_proxy_failure.
NextGet ==
    \/ \E c \in Callers, p \in AllProxies : MarkBegin(c, p)
    \/ \E c \in Callers : MarkStore(c)
    \/ \E c \in Callers : GetBegin(c)
    \/ \E c \in Callers : GetReset(c)
    \/ \E c \in Callers : GetFilter(c)
    \/ \E c \in Callers : GetReturn(c)

SpecGet == InitGet /\ [][NextGet]_vars

\* ------------------------------------------------------------------ claims
Status(id) == downloads[id].status
Registered == DOMAIN downloads
Downloading == {id \in Registered : Status(id) = "downloading"}
\* the futures some queue thread still holds
Held == UNION {futures[t] : t \in Threads}

\* C1: in every reachable state at most max_concurrent jobs have status
\* 'downloading'.
C1_AtMostNDownloading == Cardinality(Downloading) <= max_concurrent

\* C2: every submitted job eventually reaches a terminal status, when stop
\* is never called and every Downloader call ends.
C2_EventuallyTerminal ==
    \A id \in IDs :
        (id \in Registered) ~> (id \in Registered /\ Status(id) \in Terminal)

\* C3: a job cancelled while it was still queued (status 'cancelled', never
\* started) keeps status 'cancelled' in every later step.
C3_CancelledBeforePickupStays ==
    [][\A id \in Registered :
          (Status(id) = "cancelled" /\ downloads[id].started_at = None
           /\ id \in DOMAIN downloads')
          => downloads'[id].status = "cancelled"]_vars

\* C4: the terminal states are absorbing: no step changes the status of a
\* job whose status is completed, failed or cancelled.
C4_TerminalAbsorbing ==
    [][\A id \in Registered :
          (Status(id) \in Terminal /\ id \in DOMAIN downloads')
          => downloads'[id].status = Status(id)]_vars

\* C5: every job that a step removes from the registry has, in the state the
\* step starts from, status completed, failed or cancelled.
C5_ClearRemovesOnlyTerminal ==
    [][\A id \in Registered :
          id \notin DOMAIN downloads' => Status(id) \in Terminal]_vars

\* C5 witness: clear_completed has removed a job while another one, still
\* registered, is downloading.
C5_Witness ==
    /\ Range(issued) \ Registered # {}
    /\ Downloading # {}

\* C6: no step lowers the progress of a job whose status is 'downloading'.
C6_ProgressMonotone ==
    [][\A id \in Registered :
          (Status(id) = "downloading" /\ id \in DOMAIN downloads')
          => downloads'[id].progress >= downloads[id].progress]_vars

\* C7: the rest of a cancel_download call, whose `in self.downloads` test
\* passed, never raises; it returns True only by leaving the job 'cancelled'
\* with completed_at set, and otherwise leaves the registry unchanged.
C7_CancelNeverRaises ==
    [][(cancelPc = "body" /\ cancelPc' = "idle")
          => /\ CancelResult \in {"True", "False"}
             /\ CancelResult = "True"
                  => /\ downloads'[cancelId].status = "cancelled"
                     /\ downloads'[cancelId].completed_at = "set"
             /\ CancelResult = "False" => downloads' = downloads]_vars

\* C8: a job whose Downloader call raised, which is not cancelled and whose
\* future the queue thread no longer holds (it went through its results, or
\* it ended), has status 'failed', error "x" and completed_at set; its worker
\* called mark_proxy_failure once if it used a proxy, and never otherwise.
C8_RaiseRecordedAsFailed ==
    \A id \in Registered :
        /\ (future[id] = "exc" /\ id \notin Held /\ Status(id) # "cancelled")
             => /\ Status(id) = "failed"
                /\ downloads[id].error = "x"
                /\ downloads[id].completed_at = "set"
        /\ marked[id] = IF future[id] = "exc" /\ wproxy[id] # None THEN 1 ELSE 0

C9_LoopEndsOnlyOnStop ==
    \A t \in Threads :
        (schedPc[t] = "shutdown" /\ Range(issued) = Registered) => stop_flag

\* C11: the record get_download returns for the id add_url has just returned
\* has status 'queued' and progress 0.
C11_RoundTripQueued ==
    viewKind = "new" =>
        \A id \in view : viewSeen[id].status = "queued" /\ viewSeen[id].progress = 0

\* C11 (amended): add_url leaves the new record 'queued' with progress 0
\* and the URL it was given, and no later step changes a record's id or url;
\* the record get_download returns for the id add_url has just returned
\* carries that id, and, when no other facade call is made in between, it is
\* 'queued' with progress 0 unless a queue thread has already marked the job
\* (started_at set).
C11_RoundTripLive ==
    [][/\ \A url \in URLs :
            AddUrl(url, None)
            => /\ downloads'[justAdded'].url = url
               /\ downloads'[justAdded'].status = "queued"
               /\ downloads'[justAdded'].progress = 0
       /\ \A id \in Registered \cap DOMAIN downloads' :
            /\ downloads'[id].url = downloads[id].url
            /\ downloads'[id].id = id
       /\ viewKind' = "new"
            => \A id \in view' :
                 /\ viewSeen'[id].id = id
                 /\ viewSeen'[id].started_at = None
                      => /\ viewSeen'[id].status = "queued"
                         /\ viewSeen'[id].progress = 0]_vars

\* C11 witness: get_download, called for the id add_url has just returned,
\* returned a record that a queue thread had already marked 'downloading'.
C11_Witness ==
    /\ viewKind = "new"
    /\ \E id \in view : viewSeen[id].status = "downloading"

\* C12: when a job becomes 'downloading', no job whose add_url call began
\* after this job's call had returned has become 'downloading' before it.
C12_FifoAdmission ==
    [][\A a \in Registered \cap DOMAIN downloads' :
          (Status(a) # "downloading" /\ downloads'[a].status = "downloading")
          => \A b \in Registered :
                 a \in before[b] => downloads[b].started_at = None]_vars

\* the step in which stop() returns to its caller, having gone through its
\* iteration without an error
StopReturns ==
    /\ stopPc = "iter"
    /\ stopPc' = "idle"
    /\ Cardinality(DOMAIN downloads) = stopLen

\* C13: when stop() returns, every worker has finished and no queue thread
\* is left, every job that was 'queued' or 'downloading' when stop() was
\* called is terminal.
C13_StopCancelsOutstanding ==
    [][(/\ StopReturns
        /\ \A id \in IDs : ~Pending(id)
        /\ \A t \in Threads : ~Alive(t))
          => \A id \in DOMAIN stopSnap \cap Registered :
                 Status(id) \in Terminal]_vars

\* C13 (amended): when stop() returns, every job that was 'downloading' when
\* it was called is terminal; a job that was 'queued' then, and that no queue
\* thread has dispatched since, is still 'queued'.
C13_StopCancelsActive ==
    [][StopReturns
          => \A id \in DOMAIN stopSnap \cap Registered :
                 /\ stopSnap[id] = "downloading" => Status(id) \in Terminal
                 /\ (stopSnap[id] = "queued" /\ downloads[id].started_at = None)
                      => Status(id) = "queued"]_vars

\* C13 witness: stop() has been called and not undone by a later add_url, no
\* queue thread is left, the job that was downloading is cancelled and
\* another job is still queued.
C13_Witness ==
    /\ stopPc = "idle"
    /\ stop_flag
    /\ \A t \in Threads : ~Alive(t)
    /\ \E a, b \in Registered :
          /\ Status(a) = "cancelled"
          /\ downloads[a].started_at = "set"
          /\ Status(b) = "queued"

\* C14: while the stop flag is set (stop() has raised it and no add_url has
\* restarted the queue thread since), no job goes from 'queued' to
\* 'downloading'.
C14_NoAdmissionAfterStop ==
    [][stop_flag
          => \A id \in Registered \cap DOMAIN downloads' :
                 ~(Status(id) = "queued" /\ downloads'[id].status = "downloading")]_vars

\* the jobs of a registry whose status is completed, failed or cancelled
TerminalIn(d) == {id \in DOMAIN d : d[id].status \in Terminal}

\* C15: when a clear_completed call, during which no other thread took a
\* step, returns, the registry holds exactly the jobs that were queued or
\* downloading when it was called, with their records unchanged, and the
\* value returned is the number of jobs that were terminal then.
C15_ClearRemovesAllTerminal ==
    [][(clearPc = "delete" /\ clearPc' = "idle")
          => /\ downloads' = [id \in DOMAIN clearBase \ TerminalIn(clearBase)
                                 |-> clearBase[id]]
             /\ ClearResult = Cardinality(TerminalIn(clearBase))]_vars

\* C15 witness: clear_completed has returned after removing a job, and a
\* job that was queued is still registered and queued.
C15_Witness ==
    /\ clearPc = "idle"
    /\ Range(issued) \ Registered # {}
    /\ \E id \in Registered : Status(id) = "queued"

\* the position of an id in the order the ids were put on the queue
Pos(seq, id) == CHOOSE i \in 1..Len(seq) : seq[i] = id

\* C16: each iteration of add_urls creates one job, 'queued', puts its id at
\* the end of the queue and leaves the jobs of the earlier URLs registered;
\* add_urls returns one id per URL, all different, in the order of the list:
\* the job of the i-th id has the i-th URL and the proxy of the call, and was
\* put on the queue before the job of every later id.
C16_AddUrlsIterates ==
    [][/\ (batchPc = "loop" /\ batchIds' # batchIds)
            => LET id == batchIds'[Len(batchIds')]
               IN  /\ batchIds' = Append(batchIds, id)
                   /\ id \notin Range(issued)
                   /\ downloads'[id].status = "queued"
                   /\ download_queue' = Append(download_queue, id)
                   /\ \A j \in Range(batchIds) :
                          j \in DOMAIN downloads' /\ downloads'[j] = downloads[j]
       /\ (batchPc = "loop" /\ batchPc' = "idle")
            => /\ Len(batchIds') = Len(batchArg')
               /\ \A i \in 1..Len(batchIds') :
                     /\ batchIds'[i] \in DOMAIN downloads'
                     /\ downloads'[batchIds'[i]].url = batchArg'[i]
                     /\ downloads'[batchIds'[i]].proxy = batchProxy'
               /\ \A i, j \in 1..Len(batchIds') :
                     i < j => /\ batchIds'[i] # batchIds'[j]
                              /\ Pos(issued', batchIds'[i])
                                   < Pos(issued', batchIds'[j])]_vars

\* C16 witness: add_urls has returned the ids of two jobs with different
\* URLs, the first of which has meanwhile been completed.
C16_Witness ==
    /\ batchPc = "idle"
    /\ Len(batchIds) = 2
    /\ batchArg[1] # batchArg[2]
    /\ Status(batchIds[1]) = "completed"
    /\ Status(batchIds[2]) = "queued"

\* C17: every record of the result a caller holds of its last get_download
\* or get_all_downloads call reads as it did when the call returned.
C17_SnapshotStable ==
    \A id \in view \cap Registered : Deref(id) = viewSeen[id]

\* C18: a queue thread that looks up the job it has dequeued, marks it or
\* records its worker's result goes on with its loop (it leaves the loop only
\* at the top, on the stop flag, or at the poll), and no worker's call ends in
\* a KeyError.
C18_ClearedJobIsNoOp ==
    [][/\ \A t \in Threads :
            schedPc[t] \in {"check", "mark", "record"} => schedPc'[t] # "shutdown"
       /\ \A id \in IDs : future'[id] # "keyerror"]_vars

\* C19: a job that add_url has created and that is not 'queued' (its status
\* is another one, or it has been cleared) is not 'queued' after any step.
C19_NeverBackToQueued ==
    [][\A id \in Range(issued) :
          (id \notin Registered \/ Status(id) # "queued")
          => ~(id \in DOMAIN downloads' /\ downloads'[id].status = "queued")]_vars

\* C19 witness: stop() has been called and, before it returned, an add_url
\* call has restarted the queue thread (the flag is cleared again), which
\* has dispatched a job.
C19_Witness ==
    /\ stopPc = "iter"
    /\ ~stop_flag
    /\ \E t \in Threads : Alive(t)
    /\ Downloading # {}

\* the positions of the characters of a line that are not whitespace
NonSpace(line) == {k \in 1..Len(line) : line[k] # " "}

Min(S) == CHOOSE k \in S : \A m \in S : k <= m

Max(S) == CHOOSE k \in S : \A m \in S : m <= k

\* a line that is neither blank nor a comment: it has a character that is not
\* whitespace, and the first such character is not '#'
IsUrlLine(line) ==
    NonSpace(line) # {} /\ line[Min(NonSpace(line))] # "#"

\* the URL such a line holds: from its first to its last character that is
\* not whitespace
UrlOf(line) == SubSeq(line, Min(NonSpace(line)), Max(NonSpace(line)))

\* urls is the list of the URLs of the non-blank, non-comment lines, in the
\* order of the lines
IsUrlsOf(urls, lines) ==
    LET kept == {i \in 1..Len(lines) : IsUrlLine(lines[i])}
    IN  /\ Len(urls) = Cardinality(kept)
        /\ \E at \in [1..Len(urls) -> kept] :
              /\ \A i, j \in 1..Len(urls) : i < j => at[i] < at[j]
              /\ \A i \in 1..Len(urls) : urls[i] = UrlOf(lines[at[i]])

\* C20: add_from_file called with the path of a file raises nothing and
\* passes to add_urls the URLs of the file's non-blank, non-comment lines in
\* file order, having created no job itself; the ids add_urls then returns
\* are those of jobs with these URLs, in this order. Called with an absent
\* path it raises FileNotFoundError, starts no add_urls, and leaves the
\* registry and the queue as they were.
C20_AddFromFile ==
    [][/\ (batchSrc' # batchSrc /\ batchSrc'.kind = "file")
            => /\ batchErr' = None
               /\ batchPc = "idle" /\ batchPc' = "loop"
               /\ IsUrlsOf(batchArg', batchSrc'.lines)
               /\ batchUrls' = batchArg'
               /\ batchIds' = <<>>
               /\ UNCHANGED <<downloads, locks, download_queue, issued>>
       /\ (batchPc = "loop" /\ batchPc' = "idle")
            => /\ Len(batchIds') = Len(batchArg')
               /\ \A i \in 1..Len(batchIds') :
                     /\ batchIds'[i] \in DOMAIN downloads'
                     /\ downloads'[batchIds'[i]].url = batchArg'[i]
               /\ \A i, j \in 1..Len(batchIds') :
                     i < j => Pos(issued', batchIds'[i])
                                < Pos(issued', batchIds'[j])
       /\ (batchSrc' # batchSrc /\ batchSrc'.kind = "absent")
            => /\ batchErr' = "FileNotFoundError"
               /\ batchPc = "idle" /\ batchPc' = "idle"
               /\ batchIds' = batchIds
               /\ UNCHANGED <<downloads, locks, download_queue, issued>>]_vars

\* C20 witness: add_from_file has returned the ids of the two jobs of a file
\* whose URLs are "a" and "b", and a later call with an absent path has
\* raised.
C20_Witness ==
    /\ batchPc = "idle"
    /\ batchErr = "FileNotFoundError"
    /\ batchSrc = AbsentPath
    /\ batchArg = << <<"a">>, <<"b">> >>
    /\ Len(batchIds) = 2
    /\ \A i \in 1..2 : batchIds[i] \in Registered

\* C21: in every reachable state a job with status 'completed' has its
\* output_file set to the path the Downloader returned, progress 100 and
\* completed_at set, also after the progress thread of the backend has made
\* a report later than the return of the worker.
C21_CompletedFields ==
    \A id \in Registered :
        Status(id) = "completed"
        => /\ downloads[id].output_file = "file"
           /\ downloads[id].progress = 100
           /\ downloads[id].completed_at = "set"

\* C22: in every reachable state output_file is set only on a job with
\* status 'completed' and error only on a job with status 'failed'; a job in
\* any other status, a cancelled one in particular, has None there.
C22_ResultFieldsMatchStatus ==
    \A id \in Registered :
        /\ downloads[id].output_file # None => Status(id) = "completed"
        /\ downloads[id].error # None => Status(id) = "failed"

\* C22 witness: one job failed and carries its error, the other was
\* cancelled while its transfer ran and carries neither field, its worker
\* having returned since.
C22_Witness ==
    \E a, b \in Registered :
        /\ Status(a) = "failed" /\ downloads[a].error = "x"
        /\ Status(b) = "cancelled" /\ downloads[b].started_at = "set"
        /\ downloads[b].error = None /\ downloads[b].output_file = None
        /\ future[b] = "ret"

\* C23: the timestamps follow the transitions: in every reachable state a
\* job with status 'queued' has started_at None and a job with status
\* 'queued' or 'downloading' has completed_at None, and no step sets the
\* started_at of a job that was cancelled while it was queued.
C23_TimestampsFollowStatus ==
    /\ [](\A id \in Registered :
            /\ Status(id) = "queued" => downloads[id].started_at = None
            /\ Status(id) \in {"queued", "downloading"}
                 => downloads[id].completed_at = None)
    /\ [][\A id \in Registered :
            (Status(id) = "cancelled" /\ downloads[id].started_at = None
             /\ id \in DOMAIN downloads')
            => downloads'[id].started_at = None]_vars

\* how many times id is in seq
Count(seq, id) == Cardinality({k \in 1..Len(seq) : seq[k] = id})

\* C24: a job is processed by at most one worker, also across a restart of
\* the queue thread. An id is put on the queue only by the add_url call it
\* was made for and is on it at most once; while it is there no thread has
\* dequeued it and no _download call was submitted for it; a thread takes
\* it as its current id only by removing it from the queue; at most one
\* thread holds a future for it; and its _download call is submitted once
\* and started once.
C24_AtMostOneWorker ==
    /\ [](\A id \in IDs :
            /\ Count(download_queue, id) <= 1
            /\ Count(download_queue, id) = 1
                 => /\ future[id] = "none"
                    /\ \A t \in Threads : cur[t] # id /\ id \notin futures[t]
            /\ Cardinality({t \in Threads : id \in futures[t]}) <= 1)
    /\ [][\A id \in IDs :
            /\ Count(download_queue', id) > Count(download_queue, id)
                 => Count(issued, id) = 0 /\ Count(issued', id) = 1
            /\ \A t \in Threads :
                  (cur'[t] = id /\ cur[t] # id)
                  => /\ Count(download_queue, id) = 1
                     /\ Count(download_queue', id) = 0
            /\ (future'[id] = "submitted" /\ future[id] # "submitted")
                 => future[id] = "none"
            /\ (future'[id] = "running" /\ future[id] # "running")
                 => future[id] = "submitted"]_vars

\* C24 witness: the queue thread that dispatched the first job has ended
\* without recording its result (the job is still 'downloading', its worker
\* has returned and no thread holds its future), and the worker of the
\* second job runs for the queue thread that a later add_url started.
C24_Witness ==
    /\ {1, 2} \subseteq Registered
    /\ Status(1) = "downloading"
    /\ future[1] = "ret"
    /\ 1 \notin Held
    /\ future[2] = "running"
    /\ queue_thread # 0
    /\ 2 \in futures[queue_thread]

\* C25: once a job is terminal no step changes its progress,
\* downloaded_bytes, total_bytes, output_file, error or completed_at: not a
\* progress report, and not the result of a transfer that went on after the
\* job was cancelled. The job can only be removed.
C25_TerminalFieldsFrozen ==
    [][\A id \in Registered :
          (Status(id) \in Terminal /\ id \in DOMAIN downloads')
          => /\ downloads'[id].progress = downloads[id].progress
             /\ downloads'[id].downloaded_bytes = downloads[id].downloaded_bytes
             /\ downloads'[id].total_bytes = downloads[id].total_bytes
             /\ downloads'[id].output_file = downloads[id].output_file
             /\ downloads'[id].error = downloads[id].error
             /\ downloads'[id].completed_at = downloads[id].completed_at]_vars

\* C26: the failure counts are safe under concurrent mark_proxy_failure
\* calls: where get_proxy is not called, whenever no call for a configured
\* proxy is under way its count equals the number of calls that were made
\* for it, and a call for a proxy that is not configured changes no count.
C26_MarkCountsExact ==
    /\ [](\A p \in Range(proxies) :
            Storing(p) = {} => failed_proxies[p] = pmCalls[p])
    /\ [][\A p \in MarkArgs \ Range(proxies) :
            pmCalls'[p] # pmCalls[p] => failed_proxies' = failed_proxies]_vars

\* C30: every get_proxy call returns, and at the moment it returns: where a
\* configured proxy has fewer than MaxFailures recorded failures, the value
\* is a configured proxy that is not marked failed; the value is None
\* exactly where the list is empty or every configured proxy has
\* MaxFailures or more; and a proxy with MaxFailures or more recorded
\* failures is never the value.
C30_GetProxyReturnsWorking ==
    [][\A c \in Callers :
          (pmPc[c] \in {"return", "reset"} /\ pmPc'[c] = "idle")
          => LET r == pmRet'[c]
                 configured == Range(proxies)
             IN  /\ r # "KeyError"
                 /\ (\E p \in configured : failed_proxies[p] < MaxFailures)
                      => (r \in configured /\ failed_proxies[r] = 0)
                 /\ (r = None)
                      <=> (\A p \in configured :
                              failed_proxies[p] >= MaxFailures)
                 /\ r \in configured
                      => failed_proxies[r] < MaxFailures]_vars

\* C27: when a job in status 'downloading' is cancelled while a backend
\* executes its transfer, the stop signal reaches that transfer: the aria2
\* process of the job is terminated where aria2 runs it, with or without
\* use_aria2, and where yt-dlp runs it the key passed to yt-dlp is one of
\* the keys yt-dlp has registered.
C27_SignalReachesBackend ==
    [][\A id \in Registered :
          (/\ Status(id) = "downloading"
           /\ id \in DOMAIN downloads'
           /\ downloads'[id].status = "cancelled"
           /\ future[id] = "running")
          => /\ Backend(downloads[id]) = "aria2" => id \in terminated'
             /\ Backend(downloads[id]) = "ytdlp" => YtdlpCancel(CancelKey(id))]_vars

\* C28: in every reachable state at most one queue thread is running (was
\* started and has not ended), also where several threads call add_url at
\* the same time.
C28_AtMostOneQueueThread ==
    Cardinality({t \in Threads : Alive(t)}) <= 1

\* C29: scheduling resumes after a stop: once add_url has been called after
\* stop() was called, every job that is 'queued', the new one and those the
\* stop left queued, eventually leaves 'queued'.
C29_ResumesAfterStop ==
    \A id \in IDs :
        (phase = "resumed" /\ id \in Registered /\ Status(id) = "queued")
        ~> (id \in Registered /\ Status(id) # "queued")
====
